---- MODULE Spec2Model ----
(***************************************************************************)
(* Model of src/app.py: a Flask application exposing host metrics.         *)
(*   GET /           index()      dashboard page (HTML + polling script)   *)
(*   GET /api/stats  api_stats()  samples psutil, records three gauges,    *)
(*                                returns JSON                             *)
(*   GET /metrics    metrics()    text exposition of the three gauges      *)
(* Percentages are integers.  Per-process cpu/mem readings are integers in *)
(* thousandths of a percent, and their rounded values are in hundredths.   *)
(***************************************************************************)
EXTENDS Integers, Sequences, FiniteSets, TLC

VARIABLES
    ptable,   \* OS process table, in psutil.process_iter enumeration order
    g_cpu,    \* Gauge container_cpu_percent
    g_mem,    \* Gauge container_memory_percent
    g_disk,   \* Gauge container_disk_percent
    resp,     \* response of the most recently completed request
    calls,    \* library calls made by the most recently completed request
    lastOk,   \* history: cpu/memory/disk of the latest 200 /api/stats response
    lastRec,  \* history: per gauge, value returned by the latest 200
              \*          /api/stats response whose write of that gauge succeeded
    thr,      \* threaded server: state of each /api/stats worker thread
    scr,      \* threaded server: state of the /metrics worker thread
    page,     \* dashboard script: position and in-flight refresh() runs
    timers    \* dashboard script: pending setTimeout(refresh) timers (ms left)

vars == <<ptable, g_cpu, g_mem, g_disk, resp, calls, lastOk, lastRec,
          thr, scr, page, timers>>

serverVars == <<g_cpu, g_mem, g_disk, resp, calls, lastOk, lastRec>>
threadVars == <<thr, scr>>
clientVars == <<page, timers>>

----------------------------------------------------------------------------
(* Bounds of the model *)

\* largest process table of ProcSpec (more than TopN so that truncation happens)
MaxProcs == 9
\* largest process table with every kind of process (ProcSpec)
MidProcs == 4

----------------------------------------------------------------------------
(* Program constants *)

\* the slice [:8]
TopN == 8
\* setTimeout(refresh, 2000)
RefreshDelayMs == 2000

\* None, for a process attribute psutil could not read (ad_value=None)
NoneVal == -1
\* psutil.disk_usage raised
DiskFail == -1

----------------------------------------------------------------------------
(* Inputs: what the operating system reports to one request *)

CpuVals == {10, 90}
MemVals == {20, 80}
\* disk_usage(...).percent of the two paths, when the path exists
PrimaryVals == {30}
FallbackVals == {70}
NetSnapshots == {[bytes_sent |-> 5, bytes_recv |-> 7, packets_sent |-> 1,
                  packets_recv |-> 2, errin |-> 0, errout |-> 0,
                  dropin |-> 0, dropout |-> 0]}
Times == {1700000000}
HostNames == {"host-a"}

\* which gauge write raises, if any
RecFails == {"none", "cpu", "mem", "disk"}

\* a process as process_iter sees it: attributes, or None where unreadable;
\* gone = the process exited before its attributes could be read
ProcLow   == [name |-> "idle",  cpu |-> 4,       mem |-> 1006,    gone |-> FALSE]
ProcHigh  == [name |-> "build", cpu |-> 1231,    mem |-> 2504,    gone |-> FALSE]
ProcHigh2 == [name |-> "None",  cpu |-> 1234,    mem |-> 12,      gone |-> FALSE]
ProcNoCpu == [name |-> "root",  cpu |-> NoneVal, mem |-> 2504,    gone |-> FALSE]
ProcNoMem == [name |-> "root",  cpu |-> 1231,    mem |-> NoneVal, gone |-> FALSE]
ProcGone  == [name |-> "gone",  cpu |-> 1234,    mem |-> 12,      gone |-> TRUE]

ProcKinds == {ProcLow, ProcHigh, ProcHigh2, ProcNoCpu, ProcNoMem, ProcGone}
ProcKindsSmall == {ProcLow, ProcHigh, ProcNoCpu}

\* the process tables of the hosts of Spec, ThreadSpec and PollSpec
HostTables == {<<>>, <<ProcLow, ProcGone, ProcHigh2, ProcHigh>>}

ProcTables(kinds, n) == UNION {[1..m -> kinds] : m \in 0..n}

----------------------------------------------------------------------------
(* Helpers *)

Min(a, b) == IF a <= b THEN a ELSE b

\* round(x, 2) of a value given in thousandths, result in hundredths
\* (inputs never end in 5, so the rounding direction of a tie is not needed)
Round2(x) == (x + 5) \div 10

\* ReadFails without the TypeError of round(None, 2)
ReadFailsGoneOnly(p) == p.gone

\* the try body of the process loop raises for this process
ReadFails(p) == p.gone \/ p.cpu = NoneVal \/ p.mem = NoneVal

\* the dict appended to procs for the i-th enumerated process
ProcDict(p, i) ==
    [pid  |-> i,
     name |-> IF p.name = "None" THEN "" ELSE p.name,
     cpu  |-> Round2(p.cpu),
     mem  |-> Round2(p.mem)]

\* the loop over process_iter: dicts of the readable processes, in order
RECURSIVE CollectFrom(_, _)
CollectFrom(tab, i) ==
    IF i > Len(tab) THEN <<>>
    ELSE IF ReadFails(tab[i]) THEN CollectFrom(tab, i + 1)
    ELSE <<ProcDict(tab[i], i)>> \o CollectFrom(tab, i + 1)

CollectProcs(tab) == CollectFrom(tab, 1)

\* InsertDesc as an ascending sort followed by a reversal would have it: d goes
\* before the elements of equal cpu
RECURSIVE InsertDescBeforeTies(_, _)
InsertDescBeforeTies(s, d) ==
    IF s = <<>> THEN <<d>>
    ELSE IF Head(s).cpu > d.cpu
         THEN <<Head(s)>> \o InsertDescBeforeTies(Tail(s), d)
    ELSE <<d>> \o s

\* insert d into a list sorted by cpu descending, after every element whose
\* cpu is >= d.cpu
RECURSIVE InsertDesc(_, _)
InsertDesc(s, d) ==
    IF s = <<>> THEN <<d>>
    ELSE IF Head(s).cpu >= d.cpu THEN <<Head(s)>> \o InsertDesc(Tail(s), d)
    ELSE <<d>> \o s

\* sorted(procs, key=lambda x: x['cpu'], reverse=True): stable, descending
RECURSIVE SortedDesc(_)
SortedDesc(s) ==
    IF s = <<>> THEN <<>>
    ELSE InsertDesc(SortedDesc(SubSeq(s, 1, Len(s) - 1)), s[Len(s)])

\* [:8]
Truncate(s) == SubSeq(s, 1, Min(TopN, Len(s)))

TopProcesses(tab) == Truncate(SortedDesc(CollectProcs(tab)))

----------------------------------------------------------------------------
(* Server: the handlers, each run to completion *)

\* one entry of the call log: the call, whether it returned, and the value it
\* returned (for a gauge's set(): the value it was given)
Call(op, v) == [op |-> op, ok |-> TRUE, val |-> v]
Raised(op, v) == [op |-> op, ok |-> FALSE, val |-> v]

Gauges == [cpu |-> g_cpu, mem |-> g_mem, disk |-> g_disk]

\* Record with g_disk.set(vm.percent)
RecordMemAsDisk(g, cpu, mem, disk, fail) ==
    IF fail = "cpu" THEN
        [g |-> g, calls |-> <<Raised("g_cpu.set", cpu)>>]
    ELSE IF fail = "mem" THEN
        [g |-> [g EXCEPT !.cpu = cpu],
         calls |-> <<Call("g_cpu.set", cpu), Raised("g_mem.set", mem)>>]
    ELSE IF fail = "disk" THEN
        [g |-> [g EXCEPT !.cpu = cpu, !.mem = mem],
         calls |-> <<Call("g_cpu.set", cpu), Call("g_mem.set", mem),
                     Raised("g_disk.set", mem)>>]
    ELSE
        [g |-> [cpu |-> cpu, mem |-> mem, disk |-> mem],
         calls |-> <<Call("g_cpu.set", cpu), Call("g_mem.set", mem),
                     Call("g_disk.set", mem)>>]

\* the try block that updates the gauges: the three set() calls in order; the
\* first one that raises ends the block, the exception is discarded
Record(g, cpu, mem, disk, fail) ==
    IF fail = "cpu" THEN
        [g |-> g, calls |-> <<Raised("g_cpu.set", cpu)>>]
    ELSE IF fail = "mem" THEN
        [g |-> [g EXCEPT !.cpu = cpu],
         calls |-> <<Call("g_cpu.set", cpu), Raised("g_mem.set", mem)>>]
    ELSE IF fail = "disk" THEN
        [g |-> [g EXCEPT !.cpu = cpu, !.mem = mem],
         calls |-> <<Call("g_cpu.set", cpu), Call("g_mem.set", mem),
                     Raised("g_disk.set", disk)>>]
    ELSE
        [g |-> [cpu |-> cpu, mem |-> mem, disk |-> disk],
         calls |-> <<Call("g_cpu.set", cpu), Call("g_mem.set", mem),
                     Call("g_disk.set", disk)>>]

\* DiskUsage with the two paths tried in the other order
DiskUsageRootFirst(dC, dR) ==
    IF dR # DiskFail THEN
        [ok |-> TRUE, percent |-> dR,
         calls |-> <<Call("disk_usage:/", dR)>>]
    ELSE IF dC # DiskFail THEN
        [ok |-> TRUE, percent |-> dC,
         calls |-> <<Raised("disk_usage:/", dR), Call("disk_usage:C:\\", dC)>>]
    ELSE
        [ok |-> FALSE, percent |-> DiskFail,
         calls |-> <<Raised("disk_usage:/", dR), Raised("disk_usage:C:\\", dC)>>]

\* try disk_usage('C:\\') except Exception: disk_usage('/')
\* dC, dR: what disk_usage gives for the two paths (a percent, or DiskFail)
DiskUsage(dC, dR) ==
    IF dC # DiskFail THEN
        [ok |-> TRUE, percent |-> dC,
         calls |-> <<Call("disk_usage:C:\\", dC)>>]
    ELSE IF dR # DiskFail THEN
        [ok |-> TRUE, percent |-> dR,
         calls |-> <<Raised("disk_usage:C:\\", dC), Call("disk_usage:/", dR)>>]
    ELSE
        [ok |-> FALSE, percent |-> DiskFail,
         calls |-> <<Raised("disk_usage:C:\\", dC), Raised("disk_usage:/", dR)>>]

\* Flask's answer to an exception that leaves a view function
ServerError(route) ==
    [route |-> route, status |-> 500,
     body |-> [kind |-> "html", text |-> "Internal Server Error"]]

\* StatsJson with 'disk': vm.percent
StatsJsonMemAsDisk(cpu, mem, disk, net, procs, ts) ==
    [route |-> "/api/stats", status |-> 200,
     body |-> [kind |-> "json", cpu |-> cpu, memory |-> mem, disk |-> mem,
               net |-> net, top_processes |-> procs, timestamp |-> ts]]

\* jsonify({...}) of api_stats
StatsJson(cpu, mem, disk, net, procs, ts) ==
    [route |-> "/api/stats", status |-> 200,
     body |-> [kind |-> "json", cpu |-> cpu, memory |-> mem, disk |-> disk,
               net |-> net, top_processes |-> procs, timestamp |-> ts]]

\* StatsOutcome with a second except clause that reports a disk percent of 0
StatsOutcomeDiskZero(tab, g, cpu, vmp, dC, dR, net, ts, fail) ==
    LET pre == <<Call("cpu_percent", cpu), Call("virtual_memory", vmp)>>
        du  == DiskUsage(dC, dR)
        pct == IF du.ok THEN du.percent ELSE 0
        procs == TopProcesses(tab)
        rec   == Record(g, cpu, vmp, pct, fail)
    IN  [resp  |-> StatsJson(cpu, vmp, pct, net, procs, ts),
         calls |-> pre \o du.calls
                   \o <<Call("net_io_counters", 0), Call("process_iter", Len(tab))>>
                   \o rec.calls \o <<Call("jsonify", 0)>>,
         g     |-> rec.g]

\* StatsOutcome without the try/except around the gauge writes
StatsOutcomeNoCatch(tab, g, cpu, vmp, dC, dR, net, ts, fail) ==
    LET pre == <<Call("cpu_percent", cpu), Call("virtual_memory", vmp)>>
        du  == DiskUsage(dC, dR)
    IN  IF ~du.ok THEN
            [resp  |-> ServerError("/api/stats"),
             calls |-> pre \o du.calls,
             g     |-> g]
        ELSE
            LET procs == TopProcesses(tab)
                rec   == Record(g, cpu, vmp, du.percent, fail)
                head  == pre \o du.calls
                         \o <<Call("net_io_counters", 0),
                              Call("process_iter", Len(tab))>>
                         \o rec.calls
            IN  IF fail # "none"
                THEN [resp  |-> ServerError("/api/stats"),
                      calls |-> head,
                      g     |-> rec.g]
                ELSE [resp  |-> StatsJson(cpu, vmp, du.percent, net, procs, ts),
                      calls |-> head \o <<Call("jsonify", 0)>>,
                      g     |-> rec.g]

\* api_stats() from entry to return: the response, the calls made, the gauges
StatsOutcome(tab, g, cpu, vmp, dC, dR, net, ts, fail) ==
    LET pre == <<Call("cpu_percent", cpu), Call("virtual_memory", vmp)>>
        du  == DiskUsage(dC, dR)
    IN  IF ~du.ok THEN
            [resp  |-> ServerError("/api/stats"),
             calls |-> pre \o du.calls,
             g     |-> g]
        ELSE
            LET procs == TopProcesses(tab)
                rec   == Record(g, cpu, vmp, du.percent, fail)
            IN  [resp  |-> StatsJson(cpu, vmp, du.percent, net, procs, ts),
                 calls |-> pre \o du.calls
                           \o <<Call("net_io_counters", 0),
                                 Call("process_iter", Len(tab))>>
                           \o rec.calls \o <<Call("jsonify", 0)>>,
                 g     |-> rec.g]

Succeeded(cs, op) == \E i \in 1..Len(cs) : cs[i].op = op /\ cs[i].ok

\* the server-side effect of one GET /api/stats
ServeStats(cpu, vmp, dC, dR, net, ts, fail) ==
    \E out \in {StatsOutcome(ptable, Gauges, cpu, vmp, dC, dR, net, ts, fail)} :
        /\ g_cpu' = out.g.cpu
        /\ g_mem' = out.g.mem
        /\ g_disk' = out.g.disk
        /\ resp' = out.resp
        /\ calls' = out.calls
        /\ lastOk' = IF out.resp.status = 200
                     THEN [cpu |-> out.resp.body.cpu,
                           mem |-> out.resp.body.memory,
                           disk |-> out.resp.body.disk]
                     ELSE lastOk
        /\ lastRec' = IF out.resp.status = 200
                      THEN [cpu  |-> IF Succeeded(out.calls, "g_cpu.set")
                                     THEN out.resp.body.cpu ELSE lastRec.cpu,
                            mem  |-> IF Succeeded(out.calls, "g_mem.set")
                                     THEN out.resp.body.memory ELSE lastRec.mem,
                            disk |-> IF Succeeded(out.calls, "g_disk.set")
                                     THEN out.resp.body.disk ELSE lastRec.disk]
                      ELSE lastRec

ApiStats ==
    /\ \E cpu \in CpuVals, vmp \in MemVals,
          dC \in PrimaryVals \cup {DiskFail}, dR \in FallbackVals \cup {DiskFail},
          net \in NetSnapshots, ts \in Times, fail \in RecFails :
            ServeStats(cpu, vmp, dC, dR, net, ts, fail)
    /\ UNCHANGED <<ptable, threadVars, clientVars>>

\* one metric family of generate_latest: HELP line, TYPE line, sample line
Family(name, doc, value) ==
    <<[line |-> "HELP", name |-> name, text |-> doc, value |-> 0],
      [line |-> "TYPE", name |-> name, text |-> "gauge", value |-> 0],
      [line |-> "sample", name |-> name, text |-> "", value |-> value]>>

\* generate_latest(registry): the gauges in registration order
GenerateLatest(g) ==
    Family("container_cpu_percent", "CPU percent", g.cpu)
    \o Family("container_memory_percent", "Memory percent", g.mem)
    \o Family("container_disk_percent", "Disk percent", g.disk)

MetricsResponse(g) ==
    [route |-> "/metrics", status |-> 200,
     body |-> [kind |-> "text", lines |-> GenerateLatest(g)]]

\* Metrics taking a fresh sample of the three values before reporting
MetricsSampling ==
    /\ \E cpu \in CpuVals, vmp \in MemVals, d \in PrimaryVals :
          /\ g_cpu' = cpu
          /\ g_mem' = vmp
          /\ g_disk' = d
          /\ resp' = MetricsResponse([cpu |-> cpu, mem |-> vmp, disk |-> d])
          /\ calls' = <<Call("cpu_percent", cpu), Call("virtual_memory", vmp),
                        Call("disk_usage:C:\\", d), Call("generate_latest", 0)>>
    /\ UNCHANGED <<lastOk, lastRec>>
    /\ UNCHANGED <<ptable, threadVars, clientVars>>

Metrics ==
    /\ resp' = MetricsResponse(Gauges)
    /\ calls' = <<Call("generate_latest", 0)>>
    /\ UNCHANGED <<g_cpu, g_mem, g_disk, lastOk, lastRec>>
    /\ UNCHANGED <<ptable, threadVars, clientVars>>

IndexResponse(host) ==
    [route |-> "/", status |-> 200,
     body |-> [kind |-> "html", text |-> "dashboard", host |-> host]]

Index ==
    /\ \E host \in HostNames : resp' = IndexResponse(host)
    /\ calls' = <<Call("platform.node", 0), Call("render_template_string", 0)>>
    /\ UNCHANGED <<g_cpu, g_mem, g_disk, lastOk, lastRec>>
    /\ UNCHANGED <<ptable, threadVars, clientVars>>

----------------------------------------------------------------------------
(* Initial state: the module has been imported, no request handled *)

NoResponse == [route |-> "", status |-> 0, body |-> [kind |-> "none"]]
Zeros == [cpu |-> 0, mem |-> 0, disk |-> 0]

Threads == {1, 2}
IdleThread == [pc |-> "idle", cpu |-> 0, mem |-> 0, disk |-> 0, fail |-> "none"]
IdleScrape == [pc |-> "idle", cpu |-> 0, mem |-> 0, disk |-> 0]

InitServer ==
    /\ g_cpu = 0
    /\ g_mem = 0
    /\ g_disk = 0
    /\ resp = NoResponse
    /\ calls = <<>>
    /\ lastOk = Zeros
    /\ lastRec = Zeros

InitThreads ==
    /\ thr = [t \in Threads |-> IdleThread]
    /\ scr = IdleScrape

InitClient ==
    /\ page = [pc |-> "closed", runs |-> <<>>, plotly |-> FALSE, last |-> "none",
               shown |-> [cpu |-> 0, mem |-> 0, disk |-> 0, procs |-> <<>>]]
    /\ timers = <<>>

Init ==
    /\ ptable \in HostTables
    /\ InitServer
    /\ InitThreads
    /\ InitClient

Next == Index \/ ApiStats \/ Metrics

Spec == Init /\ [][Next]_vars

----------------------------------------------------------------------------
(* ProcSpec: one host whose scalar readings are steady, over every process *)
(* table up to MaxProcs entries                                            *)

InitProc ==
    /\ ptable \in ProcTables(ProcKindsSmall, MaxProcs)
                   \cup ProcTables(ProcKinds, MidProcs)
    /\ InitServer
    /\ InitThreads
    /\ InitClient

ApiStatsSteady ==
    /\ \E cpu \in {10}, vmp \in {20}, dC \in PrimaryVals, dR \in FallbackVals,
          net \in NetSnapshots, ts \in Times :
            ServeStats(cpu, vmp, dC, dR, net, ts, "none")
    /\ UNCHANGED <<ptable, threadVars, clientVars>>

NextProc == ApiStatsSteady

ProcSpec == InitProc /\ [][NextProc]_vars

----------------------------------------------------------------------------
(* Properties of the sequential server (Spec) *)

IsStats == resp.route = "/api/stats"

DidRaise(cs, op) == \E i \in 1..Len(cs) : cs[i].op = op /\ ~cs[i].ok
Count(cs, op) == Cardinality({i \in 1..Len(cs) : cs[i].op = op})
ValOf(cs, op) == cs[CHOOSE i \in 1..Len(cs) : cs[i].op = op].val

SamplerOps == {"cpu_percent", "virtual_memory", "disk_usage:C:\\",
               "disk_usage:/", "net_io_counters", "process_iter"}
GaugeOps == {"g_cpu.set", "g_mem.set", "g_disk.set"}
StatsFields == {"kind", "cpu", "memory", "disk", "net", "top_processes",
                "timestamp"}

\* C1 as stated: after any sequence of non-overlapping requests the three
\* gauges equal the cpu, memory and disk of the most recent 200 /api/stats
\* response (all 0 before the first one)
C1_Original == Gauges = lastOk

\* C1, amended: each gauge equals the value returned by the most recent 200
\* /api/stats response of a request whose write of that gauge succeeded, and is
\* 0 if there was none; a request that fails (500) changes no gauge
C1_GaugesReflectLastRecorded == Gauges = lastRec

\* a failed request came after a request whose recording stopped part-way
C1_Witness ==
    /\ IsStats
    /\ resp.status = 500
    /\ g_cpu # 0
    /\ Gauges # lastOk

\* the value a scraper reads for a metric in an exposition
SampleOf(lines, name) ==
    lines[CHOOSE i \in 1..Len(lines) :
              lines[i].line = "sample" /\ lines[i].name = name].value

\* C2: a GET /metrics makes no Sampler call, changes no gauge and answers 200
\* with an exposition holding exactly the gauges' current values
C2_MetricsReportsWithoutSampling ==
    [][resp'.route = "/metrics" =>
          /\ Gauges' = Gauges
          /\ resp'.status = 200
          /\ resp'.body.kind = "text"
          /\ Len(resp'.body.lines) = 9
          /\ \A i \in 1..3 :
                /\ resp'.body.lines[3 * i - 2].line = "HELP"
                /\ resp'.body.lines[3 * i - 1].line = "TYPE"
                /\ resp'.body.lines[3 * i - 1].text = "gauge"
                /\ resp'.body.lines[3 * i].line = "sample"
          /\ SampleOf(resp'.body.lines, "container_cpu_percent") = g_cpu
          /\ SampleOf(resp'.body.lines, "container_memory_percent") = g_mem
          /\ SampleOf(resp'.body.lines, "container_disk_percent") = g_disk
          /\ \A i \in 1..Len(calls') : calls'[i].op \notin SamplerOps \cup GaugeOps
    ]_vars

\* /metrics answered after the gauges were set, and they are still set
C2_Witness ==
    /\ resp.route = "/metrics"
    /\ g_cpu = 90
    /\ g_disk = 70
    /\ SampleOf(resp.body.lines, "container_cpu_percent") = 90

\* the disk part of a /api/stats step; strict = the disk gauge must hold the
\* fallback's percent whatever happened to the gauge writes
C4Step(strict) ==
    resp'.route = "/api/stats" =>
        /\ calls'[3].op = "disk_usage:C:\\"
        /\ Count(calls', "disk_usage:C:\\") = 1
        /\ Count(calls', "disk_usage:/") <= 1
        /\ Count(calls', "disk_usage:/") = 1 =>
              ~calls'[3].ok /\ calls'[4].op = "disk_usage:/"
        /\ resp'.status = 200 => DOMAIN resp'.body = StatsFields
        /\ (~calls'[3].ok /\ Succeeded(calls', "disk_usage:/")) =>
              /\ resp'.status = 200
              /\ resp'.body.disk = calls'[4].val
              /\ IF strict \/ Succeeded(calls', "g_disk.set")
                 THEN g_disk' = calls'[4].val
                 ELSE g_disk' = g_disk

\* C4 as stated: primary path first and once, fallback only after the primary
\* failed; with the fallback the response has the usual fields and both the
\* disk field and the disk gauge hold the fallback's percent
C4_Original == [][C4Step(TRUE)]_vars

\* C4, amended: as stated, except that the disk gauge holds the fallback's
\* percent only if the write of the disk gauge was reached and succeeded;
\* otherwise the disk gauge keeps its previous value
C4_OrderedDiskFallback == [][C4Step(FALSE)]_vars

\* the primary path failed, the fallback answered, the gauge took its value
C4_Witness ==
    /\ IsStats
    /\ resp.status = 200
    /\ DidRaise(calls, "disk_usage:C:\\")
    /\ Succeeded(calls, "disk_usage:/")
    /\ resp.body.disk = 70
    /\ g_disk = 70

\* C5: when both disk paths fail the request ends in a 500 without a JSON
\* body, the failed fallback is the last call made (no network, process or
\* gauge call follows) and the three gauges keep their values
C5_BothDiskPathsFail ==
    [][(resp'.route = "/api/stats" /\ DidRaise(calls', "disk_usage:/")) =>
          /\ resp'.status = 500
          /\ resp'.body.kind # "json"
          /\ calls'[Len(calls')].op = "disk_usage:/"
          /\ \A i \in 1..Len(calls') :
                calls'[i].op \notin GaugeOps \cup {"net_io_counters", "process_iter"}
          /\ Gauges' = Gauges
    ]_vars

\* a request failed on both disk paths while the gauges held earlier values
C5_Witness ==
    /\ IsStats
    /\ resp.status = 500
    /\ DidRaise(calls, "disk_usage:C:\\")
    /\ DidRaise(calls, "disk_usage:/")
    /\ g_cpu # 0
    /\ g_disk # 0

\* C7: when a gauge write raises, the response is the 200 response the same
\* readings give when no gauge write raises
C7_RecordingFailureSwallowed ==
    (IsStats /\ \E op \in GaugeOps : DidRaise(calls, op)) =>
        /\ resp.status = 200
        /\ \E dR \in FallbackVals, net \in NetSnapshots, ts \in Times :
              resp = StatsOutcome(ptable, Zeros, calls[1].val, calls[2].val,
                                  calls[3].val,
                                  IF calls[3].ok THEN dR ELSE calls[4].val,
                                  net, ts, "none").resp

\* the write of the second gauge raised
C7_Witness ==
    /\ IsStats
    /\ resp.status = 200
    /\ DidRaise(calls, "g_mem.set")
    /\ Len(ptable) > 0

\* C8: the cpu, memory and disk of a 200 /api/stats response are the values
\* the OS calls returned, each within 0..100, and every gauge the request
\* wrote was given, and holds, the value of the response
C8_ResponseIsWhatWasSampled ==
    (IsStats /\ resp.status = 200) =>
        /\ resp.body.cpu = ValOf(calls, "cpu_percent")
        /\ resp.body.memory = ValOf(calls, "virtual_memory")
        /\ resp.body.disk = IF calls[3].ok THEN calls[3].val ELSE calls[4].val
        /\ resp.body.cpu \in 0..100
        /\ resp.body.memory \in 0..100
        /\ resp.body.disk \in 0..100
        /\ Succeeded(calls, "g_cpu.set") =>
              ValOf(calls, "g_cpu.set") = resp.body.cpu /\ g_cpu = resp.body.cpu
        /\ Succeeded(calls, "g_mem.set") =>
              ValOf(calls, "g_mem.set") = resp.body.memory /\ g_mem = resp.body.memory
        /\ Succeeded(calls, "g_disk.set") =>
              ValOf(calls, "g_disk.set") = resp.body.disk /\ g_disk = resp.body.disk
        /\ (\A op \in GaugeOps : ~DidRaise(calls, op)) =>
              \A op \in GaugeOps : Succeeded(calls, op)

\* a request reported the high readings and recorded all three
C8_Witness ==
    /\ IsStats
    /\ resp.status = 200
    /\ resp.body.cpu = 90
    /\ resp.body.memory = 80
    /\ Gauges = [cpu |-> 90, mem |-> 80, disk |-> resp.body.disk]

----------------------------------------------------------------------------
(* Properties of the process list (ProcSpec) *)

\* positions of the processes whose attributes could all be read
Readable(tab) ==
    {i \in 1..Len(tab) :
        ~tab[i].gone /\ tab[i].cpu # NoneVal /\ tab[i].mem # NoneVal}

\* p comes before q in a stable descending sort on cpu of dicts whose pid is
\* the enumeration position
Before(p, q) == p.cpu > q.cpu \/ (p.cpu = q.cpu /\ p.pid < q.pid)

\* C3: top_processes is the first 8 of the stable descending-by-cpu sort of the
\* readable processes in enumeration order
C3_TopProcessesStableTop8 ==
    (IsStats /\ resp.status = 200) =>
        LET L == resp.body.top_processes
            R == Readable(ptable)
            D(i) == [pid |-> i,
                     name |-> IF ptable[i].name = "None" THEN "" ELSE ptable[i].name,
                     cpu |-> (ptable[i].cpu + 5) \div 10,
                     mem |-> (ptable[i].mem + 5) \div 10]
            In == {L[k].pid : k \in 1..Len(L)}
        IN  /\ Len(L) = IF Cardinality(R) < 8 THEN Cardinality(R) ELSE 8
            /\ \A k \in 1..Len(L) : L[k].pid \in R /\ L[k] = D(L[k].pid)
            /\ \A j, k \in 1..Len(L) : j < k => L[j].cpu >= L[k].cpu
            /\ \A j, k \in 1..Len(L) : j < k => Before(L[j], L[k])
            /\ \A i \in R \ In : \A k \in 1..Len(L) : Before(L[k], D(i))

\* more than 8 readable processes: the list was reordered, and the process
\* left out ties with the last one listed
C3_Witness ==
    /\ IsStats
    /\ resp.status = 200
    /\ Cardinality(Readable(ptable)) > 8
    /\ Len(resp.body.top_processes) = 8
    /\ resp.body.top_processes[7].pid > resp.body.top_processes[8].pid
    /\ resp.body.top_processes[1].cpu > resp.body.top_processes[8].cpu
    /\ \E i \in Readable(ptable) :
          /\ \A k \in 1..8 : resp.body.top_processes[k].pid # i
          /\ (ptable[i].cpu + 5) \div 10 = resp.body.top_processes[8].cpu

\* C6: a process whose read fails is skipped: the request still answers 200,
\* the process is not listed, every readable process is listed unless 8 others
\* precede it, and the list is sorted by cpu descending
C6_UnreadableProcessSkipped ==
    (IsStats /\ \E i \in 1..Len(ptable) : i \notin Readable(ptable)) =>
        /\ resp.status = 200
        /\ LET L == resp.body.top_processes
               In == {L[k].pid : k \in 1..Len(L)}
           IN  /\ \A i \in 1..Len(ptable) : i \notin Readable(ptable) => i \notin In
               /\ \A i \in Readable(ptable) : i \in In \/ Len(L) = 8
               /\ \A k \in 1..Len(L) - 1 : L[k].cpu >= L[k + 1].cpu

\* a process exited, another has an unreadable value, and the two readable
\* ones are listed in the opposite of their enumeration order
C6_Witness ==
    /\ IsStats
    /\ resp.status = 200
    /\ \E i \in 1..Len(ptable) : ptable[i].gone
    /\ \E i \in 1..Len(ptable) : ~ptable[i].gone /\ ptable[i].mem = NoneVal
    /\ Len(resp.body.top_processes) = 2
    /\ resp.body.top_processes[1].pid > resp.body.top_processes[2].pid

----------------------------------------------------------------------------
(* ThreadSpec: the threaded server (app.run serves each request in its own *)
(* thread).  Each thread of Threads handles one GET /api/stats; one more    *)
(* thread handles GET /metrics again and again.  A step is a stretch of a   *)
(* handler between two accesses to a gauge; every Gauge.set and every read  *)
(* of a gauge by generate_latest is atomic (the gauge's own lock).  The     *)
(* gauge writes do not raise here, so that every value a gauge holds was    *)
(* written by a request that wrote all three.                               *)

\* what the host reports to one request
HostReadings ==
    {[cpu |-> 10, mem |-> 20, dC |-> 30, dR |-> 70],
     [cpu |-> 90, mem |-> 80, dC |-> DiskFail, dR |-> 70],
     [cpu |-> 90, mem |-> 20, dC |-> DiskFail, dR |-> DiskFail]}

\* api_stats up to the try block of the gauges: sampling, disk fallback,
\* network counters and process list; a request whose disk paths both fail
\* ends here with a 500
TSample(t) ==
    /\ thr[t].pc = "idle"
    /\ \E r \in HostReadings :
          LET du == DiskUsage(r.dC, r.dR)
              pre == <<Call("cpu_percent", r.cpu), Call("virtual_memory", r.mem)>>
          IN  IF du.ok
              THEN /\ thr' = [thr EXCEPT ![t] =
                                [pc |-> "g_cpu.set", cpu |-> r.cpu, mem |-> r.mem,
                                 disk |-> du.percent, fail |-> "none"]]
                   /\ UNCHANGED <<resp, calls>>
              ELSE /\ thr' = [thr EXCEPT ![t] =
                                [pc |-> "failed", cpu |-> r.cpu, mem |-> r.mem,
                                 disk |-> DiskFail, fail |-> "none"]]
                   /\ resp' = ServerError("/api/stats")
                   /\ calls' = pre \o du.calls
    /\ UNCHANGED <<g_cpu, g_mem, g_disk, lastOk, lastRec, scr, ptable, clientVars>>

\* g_cpu.set(cpu)
TSetCpu(t) ==
    /\ thr[t].pc = "g_cpu.set"
    /\ g_cpu' = thr[t].cpu
    /\ thr' = [thr EXCEPT ![t].pc = "g_mem.set"]
    /\ UNCHANGED <<g_mem, g_disk, resp, calls, lastOk, lastRec, scr, ptable,
                   clientVars>>

\* g_mem.set(vm.percent)
TSetMem(t) ==
    /\ thr[t].pc = "g_mem.set"
    /\ g_mem' = thr[t].mem
    /\ thr' = [thr EXCEPT ![t].pc = "g_disk.set"]
    /\ UNCHANGED <<g_cpu, g_disk, resp, calls, lastOk, lastRec, scr, ptable,
                   clientVars>>

\* g_disk.set(disk.percent) and the return of the JSON response
TSetDiskReturn(t) ==
    /\ thr[t].pc = "g_disk.set"
    /\ g_disk' = thr[t].disk
    /\ thr' = [thr EXCEPT ![t].pc = "done"]
    /\ \E net \in NetSnapshots, ts \in Times :
          resp' = StatsJson(thr[t].cpu, thr[t].mem, thr[t].disk, net,
                            TopProcesses(ptable), ts)
    /\ calls' = <<Call("g_cpu.set", thr[t].cpu), Call("g_mem.set", thr[t].mem),
                  Call("g_disk.set", thr[t].disk), Call("jsonify", 0)>>
    /\ lastOk' = [cpu |-> thr[t].cpu, mem |-> thr[t].mem, disk |-> thr[t].disk]
    /\ lastRec' = lastOk'
    /\ UNCHANGED <<g_cpu, g_mem, scr, ptable, clientVars>>

\* generate_latest reads container_cpu_percent
MReadCpu ==
    /\ scr.pc = "idle"
    /\ scr' = [scr EXCEPT !.pc = "read_mem", !.cpu = g_cpu]
    /\ UNCHANGED <<serverVars, thr, ptable, clientVars>>

\* generate_latest reads container_memory_percent
MReadMem ==
    /\ scr.pc = "read_mem"
    /\ scr' = [scr EXCEPT !.pc = "read_disk", !.mem = g_mem]
    /\ UNCHANGED <<serverVars, thr, ptable, clientVars>>

\* generate_latest reads container_disk_percent; metrics() returns
MReadDiskReturn ==
    /\ scr.pc = "read_disk"
    /\ scr' = IdleScrape
    /\ resp' = MetricsResponse([cpu |-> scr.cpu, mem |-> scr.mem, disk |-> g_disk])
    /\ calls' = <<Call("generate_latest", 0)>>
    /\ UNCHANGED <<g_cpu, g_mem, g_disk, lastOk, lastRec, thr, ptable, clientVars>>

InitThread ==
    /\ ptable \in HostTables
    /\ InitServer
    /\ InitThreads
    /\ InitClient

NextThread ==
    \/ \E t \in Threads : TSample(t)
    \/ \E t \in Threads : TSetCpu(t)
    \/ \E t \in Threads : TSetMem(t)
    \/ \E t \in Threads : TSetDiskReturn(t)
    \/ MReadCpu
    \/ MReadMem
    \/ MReadDiskReturn

ThreadSpec == InitThread /\ [][NextThread]_vars

\* the triples collected so far by the /api/stats requests, and the zeros
Collections ==
    {Zeros} \cup {[cpu |-> thr[t].cpu, mem |-> thr[t].mem, disk |-> thr[t].disk] :
                     t \in {u \in Threads : thr[u].pc \notin {"idle", "failed"}}}

\* C9: with overlapping requests, the triple of every /metrics response, and
\* the triple the gauges hold once every request has returned, is the triple
\* of one /api/stats collection or the initial zeros
C9_TripleOfOneCollection ==
    /\ resp.route = "/metrics" =>
          [cpu  |-> SampleOf(resp.body.lines, "container_cpu_percent"),
           mem  |-> SampleOf(resp.body.lines, "container_memory_percent"),
           disk |-> SampleOf(resp.body.lines, "container_disk_percent")]
             \in Collections
    /\ (scr.pc = "idle" /\ \A t \in Threads : thr[t].pc \in {"done", "failed"}) =>
          Gauges \in Collections

----------------------------------------------------------------------------
(* PollSpec: one browser showing the dashboard, and the server answering   *)
(* its requests one at a time.  The script of the page is single-threaded: *)
(* a step is a stretch of it between two awaits.                           *)

\* model granularity of the passing of time, in ms
TickMs == 500

Remove(q, i) == SubSeq(q, 1, i - 1) \o SubSeq(q, i + 1, Len(q))

\* a reply to fetch('/api/stats') that this server did not produce: JSON
\* without top_processes
ForeignReply ==
    [route |-> "/api/stats", status |-> 200,
     body |-> [kind |-> "json", cpu |-> 10, memory |-> 20, disk |-> 30]]

\* AfterRun with setTimeout as the last statement of the try block
AfterRunOnSuccess(threw, ts) == IF threw THEN ts ELSE Append(ts, RefreshDelayMs)

\* refresh(): the finally block, run whether the try block threw or not
AfterRun(threw, ts) == Append(ts, RefreshDelayMs)

\* the browser gets the page from index(); the Plotly script of the CDN
\* loads or does not
PageLoad ==
    /\ page.pc = "closed"
    /\ \E host \in HostNames : resp' = IndexResponse(host)
    /\ calls' = <<Call("platform.node", 0), Call("render_template_string", 0)>>
    /\ \E loaded \in BOOLEAN :
          page' = [page EXCEPT !.pc = "loaded", !.plotly = loaded]
    /\ UNCHANGED <<g_cpu, g_mem, g_disk, lastOk, lastRec, ptable, threadVars, timers>>

\* the end of the script: makeGauge three times, then refresh(), which runs
\* up to its await of fetch; without Plotly the first makeGauge throws and the
\* script ends there
RunScript ==
    /\ page.pc = "loaded"
    /\ page' = IF page.plotly
               THEN [page EXCEPT !.pc = "polling",
                                 !.runs = <<[stage |-> "fetch", reply |-> NoResponse]>>]
               ELSE [page EXCEPT !.pc = "aborted"]
    /\ UNCHANGED <<serverVars, ptable, threadVars, timers>>

\* the server answers the request of a run; fetch resolves, res.json() starts
FetchServed ==
    /\ \E i \in 1..Len(page.runs) :
          /\ page.runs[i].stage = "fetch"
          /\ \E r \in HostReadings, net \in NetSnapshots, ts \in Times,
                fail \in RecFails :
                /\ ServeStats(r.cpu, r.mem, r.dC, r.dR, net, ts, fail)
                /\ page' = [page EXCEPT !.runs[i] =
                              [stage |-> "json", reply |-> resp']]
    /\ UNCHANGED <<ptable, threadVars, timers>>

\* something else answers the request of a run
FetchForeign ==
    /\ \E i \in 1..Len(page.runs) :
          /\ page.runs[i].stage = "fetch"
          /\ page' = [page EXCEPT !.runs[i] =
                        [stage |-> "json", reply |-> ForeignReply]]
    /\ UNCHANGED <<serverVars, ptable, threadVars, timers>>

\* fetch rejects (network error): catch logs it, finally reschedules
FetchRejected ==
    /\ \E i \in 1..Len(page.runs) :
          /\ page.runs[i].stage = "fetch"
          /\ page' = [page EXCEPT !.runs = Remove(page.runs, i), !.last = "error"]
    /\ timers' = AfterRun(TRUE, timers)
    /\ UNCHANGED <<serverVars, ptable, threadVars>>

\* the try block after the await, for a parsed body s: it throws where a
\* field it dereferences is missing
Render(shown, s) ==
    IF "top_processes" \in DOMAIN s
    THEN [threw |-> FALSE,
          shown |-> [cpu |-> s.cpu, mem |-> s.memory, disk |-> s.disk,
                     procs |-> [k \in 1..Len(s.top_processes) |->
                                   s.top_processes[k].pid]]]
    ELSE [threw |-> TRUE,
          shown |-> [shown EXCEPT !.cpu = s.cpu, !.mem = s.memory,
                                  !.disk = s.disk]]

\* res.json() settles and refresh() runs to its end: the rest of the try
\* block, catch if something threw, finally
JsonSettle ==
    /\ \E i \in 1..Len(page.runs) :
          /\ page.runs[i].stage = "json"
          /\ LET body == page.runs[i].reply.body
                 out  == IF body.kind = "json"
                         THEN Render(page.shown, body)
                         ELSE [threw |-> TRUE, shown |-> page.shown]
             IN  /\ page' = [page EXCEPT !.runs = Remove(page.runs, i),
                                         !.shown = out.shown,
                                         !.last = IF out.threw THEN "error"
                                                  ELSE "rendered"]
                 /\ timers' = AfterRun(out.threw, timers)
    /\ UNCHANGED <<serverVars, ptable, threadVars>>

\* time passes
Tick ==
    /\ \E i \in 1..Len(timers) : timers[i] > 0
    /\ timers' = [i \in 1..Len(timers) |->
                     IF timers[i] > TickMs THEN timers[i] - TickMs ELSE 0]
    /\ UNCHANGED <<serverVars, ptable, threadVars, page>>

\* a timer is due: refresh() is called and runs up to its await of fetch
TimerFires ==
    /\ \E i \in 1..Len(timers) :
          /\ timers[i] = 0
          /\ timers' = Remove(timers, i)
    /\ page' = [page EXCEPT !.runs =
                  Append(page.runs, [stage |-> "fetch", reply |-> NoResponse])]
    /\ UNCHANGED <<serverVars, ptable, threadVars>>

InitPoll ==
    /\ ptable \in HostTables
    /\ InitServer
    /\ InitThreads
    /\ InitClient

NextPoll ==
    \/ PageLoad
    \/ RunScript
    \/ FetchServed
    \/ FetchForeign
    \/ FetchRejected
    \/ JsonSettle
    \/ Tick
    \/ TimerFires

\* every request is answered or fails, promises settle, time passes and due
\* timers fire
PollSpec ==
    /\ InitPoll
    /\ [][NextPoll]_vars
    /\ WF_vars(RunScript)
    /\ WF_vars(FetchServed \/ FetchForeign \/ FetchRejected)
    /\ WF_vars(JsonSettle)
    /\ WF_vars(Tick)
    /\ WF_vars(TimerFires)

Fetching == \E i \in 1..Len(page.runs) : page.runs[i].stage = "fetch"

\* C10: at any time at most one refresh() is running or pending; a run that
\* ends, rendered or thrown, leaves exactly one timer, set to 2000 ms; and
\* once polling has started a new /api/stats request is issued again and again
C10_PollingNeverStops ==
    /\ [](Len(page.runs) + Len(timers) <= 1)
    /\ [](page.pc = "polling" => Len(page.runs) + Len(timers) = 1)
    /\ [][Len(page.runs') < Len(page.runs) =>
            /\ Len(page.runs') = Len(page.runs) - 1
            /\ timers' = Append(timers, 2000)]_vars
    /\ [][Len(timers') > Len(timers) => Len(page.runs') < Len(page.runs)]_vars
    /\ [][Fetching' /\ ~Fetching =>
            page.pc = "loaded" \/ (timers # <<>> /\ timers[1] = 0)]_vars
    /\ (page.pc = "polling" /\ ~Fetching) ~> Fetching

\* a run threw, and the request of the next run is in flight
C10_Witness ==
    /\ page.pc = "polling"
    /\ page.last = "error"
    /\ Fetching
    /\ g_cpu # 0

====
